---- MODULE Spec2Model ----
(***************************************************************************)
(* Cartoon Headshot Creator: the App component's state (src/App.tsx) and   *)
(* the generation client (src/services/geminiService.ts) as a state        *)
(* machine.  JavaScript strings are TLA+ strings; a nullable string is     *)
(* NULL or Str(s).                                                         *)
(***************************************************************************)
EXTENDS Integers, Sequences, FiniteSets, TLC

VARIABLES prompt, originalImage, generatedImage, isLoading, error,
          readers, inflight, last, resultSource

vars == <<prompt, originalImage, generatedImage, isLoading, error,
          readers, inflight, last, resultSource>>

(* ---------------------------- bounds ----------------------------------- *)

\* FileReaders whose read has been started and has not completed yet
MaxReads == 2
\* parts in one service response
MaxParts == 2
\* requests awaiting the service at once (the button guard keeps it at 1)
MaxInFlight == 2

(* ------------------------- values and inputs --------------------------- *)

NULL == <<>>
Str(s) == <<s>>
Val(o) == o[1]
\* JavaScript truthiness of a string | null
Truthy(o) == o # NULL /\ Val(o) # ""

Prompts == {"", "pixar style"}

NoFile == [type |-> "", payload |-> "", present |-> FALSE]
File(t, p) == [type |-> t, payload |-> p, present |-> TRUE]
\* a file is its declared type and the base64 text of its bytes
Files == { File("image/png", "QQ=="), File("image/png", "Qg=="),
           File("image/svg+xml", "QQ=="), File("text/plain", "QQ==") }

InvalidFileMsg == "Please upload a valid image file (PNG, JPG, etc.)."
ReadFailedMsg == "Failed to read the image file."
UploadFirstMsg == "Please upload an image first."
InvalidFormatMsg == "Invalid image data format."
UnexpectedMsg == "An unexpected error occurred."
NoImageMsg == "No image data found in the API response."
FailedPrefix == "Failed to generate image: "
UnknownMsg == "An unknown error occurred while generating the image."
PngPrefix == "data:image/png;base64,"

(* --------------------------- pure helpers ------------------------------ *)

startsWith(s, p) == Len(s) >= Len(p) /\ SubSeq(s, 1, Len(p)) = p

\* the character class \w of a JavaScript regular expression
WordChars ==
  {"a","b","c","d","e","f","g","h","i","j","k","l","m",
   "n","o","p","q","r","s","t","u","v","w","x","y","z",
   "A","B","C","D","E","F","G","H","I","J","K","L","M",
   "N","O","P","Q","R","S","T","U","V","W","X","Y","Z",
   "0","1","2","3","4","5","6","7","8","9","_"}

\* characters that "." does not match
LineTerminators == {"\n", "\r"}

\* index of the first character at or after i that is not a word character
RECURSIVE WordRunEnd(_, _)
WordRunEnd(s, i) ==
  IF i <= Len(s) /\ SubSeq(s, i, i) \in WordChars
    THEN WordRunEnd(s, i + 1)
    ELSE i

\* FileReader.readAsDataURL: the result of a successful read
readAsDataURL(file) == "data:" \o file.type \o ";base64," \o file.payload

\* match of /^data:(image\/\w+);base64,(.*)$/, or NULL
dataURLToImageData(dataUrl) ==
  LET head == "data:image/"
      j == WordRunEnd(dataUrl, Len(head) + 1)
      marker == ";base64,"
      rest == SubSeq(dataUrl, j + Len(marker), Len(dataUrl))
  IN IF /\ startsWith(dataUrl, head)
        /\ j > Len(head) + 1
        /\ SubSeq(dataUrl, j, j + Len(marker) - 1) = marker
        /\ \A k \in 1..Len(rest) : SubSeq(rest, k, k) \notin LineTerminators
       THEN <<[mimeType |-> SubSeq(dataUrl, Len("data:") + 1, j - 1),
               base64 |-> rest]>>
       ELSE NULL

(* ------------------------ generation client ---------------------------- *)

TextPart == [inlineData |-> NULL]
InlinePart(d) == [inlineData |-> Str(d)]
Parts == {TextPart, InlinePart("AAAA"), InlinePart("BBBB")}

RECURSIVE SeqsUpTo(_, _)
SeqsUpTo(S, n) ==
  IF n = 0 THEN {<<>>}
  ELSE LET shorter == SeqsUpTo(S, n - 1)
       IN shorter \cup {Append(q, x) : q \in shorter, x \in S}

\* what ai.models.generateContent does: resolves with a response, or throws
Response(ps) == [kind |-> "response", parts |-> ps]
ThrowError(m) == [kind |-> "throwError", message |-> m]
ThrowValue == [kind |-> "throwValue"]
\* a thrown value that is not an Error and has a message property
ThrowObject(m) == [kind |-> "throwObject", message |-> m]
Outcomes ==
  {Response(ps) : ps \in SeqsUpTo(Parts, MaxParts)}
    \cup {ThrowError("rate limited"), ThrowError(""), ThrowValue,
          ThrowObject("quota exceeded")}

Return(v) == [ok |-> TRUE, value |-> v, isError |-> FALSE, message |-> ""]
Throw(isErr, m) == [ok |-> FALSE, value |-> "", isError |-> isErr, message |-> m]

\* the for loop over response.candidates[0].content.parts
RECURSIVE scanParts(_)
scanParts(ps) ==
  IF ps = <<>> THEN Throw(TRUE, NoImageMsg)
  ELSE IF Head(ps).inlineData # NULL THEN Return(Val(Head(ps).inlineData))
  ELSE scanParts(Tail(ps))

\* the body of the try block
tryBlock(outcome) ==
  IF outcome.kind = "response" THEN scanParts(outcome.parts)
  ELSE IF outcome.kind = "throwError" THEN Throw(TRUE, outcome.message)
  ELSE IF outcome.kind = "throwObject" THEN Throw(FALSE, outcome.message)
  ELSE Throw(FALSE, "")

\* a catch block that drops the message of the value it caught
catchBlock_dropMessage(thrown) == Throw(TRUE, UnknownMsg)

\* a catch block that re-raises an Error without the prefix
catchBlock_noPrefix(thrown) ==
  IF thrown.isError
    THEN Throw(TRUE, thrown.message)
    ELSE Throw(TRUE, UnknownMsg)

\* the catch block: every value thrown in the try block is re-raised
catchBlock(thrown) ==
  IF thrown.isError
    THEN Throw(TRUE, FailedPrefix \o thrown.message)
    ELSE Throw(TRUE, UnknownMsg)

generateCartoonImage(outcome) ==
  LET r == tryBlock(outcome)
  IN IF r.ok THEN r ELSE catchBlock(r)

(* ------------------------------ state ---------------------------------- *)

UI == [originalImage |-> originalImage, generatedImage |-> generatedImage,
       isLoading |-> isLoading, error |-> error]

\* the state setters called by a handler take effect together
Commit(ui) ==
  /\ originalImage' = ui.originalImage
  /\ generatedImage' = ui.generatedImage
  /\ isLoading' = ui.isLoading
  /\ error' = ui.error

Init ==
  /\ prompt = ""
  /\ originalImage = NULL
  /\ generatedImage = NULL
  /\ isLoading = FALSE
  /\ error = NULL
  /\ readers = <<>>
  /\ inflight = <<>>
  /\ last = [op |-> "init"]
  /\ resultSource = NULL

\* history: the source image of the request whose result is displayed
keepSource ==
  resultSource' = IF generatedImage' = NULL THEN NULL ELSE resultSource

Remove(q, i) == SubSeq(q, 1, i - 1) \o SubSeq(q, i + 1, Len(q))

(* ---------------------------- operations ------------------------------- *)

\* the textarea's onChange; the textarea is disabled while loading
setPromptEvent(p) ==
  /\ ~isLoading
  /\ p # prompt
  /\ prompt' = p
  /\ last' = [op |-> "setPrompt"]
  /\ UNCHANGED <<originalImage, generatedImage, isLoading, error, readers, inflight,
                 resultSource>>

\* a rejected file also discards the displayed result
rejectFile_clearResult(ui) ==
  [ui EXCEPT !.error = Str(InvalidFileMsg), !.generatedImage = NULL]

\* the branch of handleFileChange for a file that is not an image
rejectFile(ui) == [ui EXCEPT !.error = Str(InvalidFileMsg)]

\* the file input's onChange
handleFileChange(file) ==
  /\ IF ~file.present
       THEN /\ Commit(UI)
            /\ UNCHANGED readers
            /\ last' = [op |-> "noFile"]
       ELSE IF ~startsWith(file.type, "image/")
         THEN /\ Commit(rejectFile(UI))
              /\ UNCHANGED readers
              /\ last' = [op |-> "selectInvalid", file |-> file]
         ELSE /\ Len(readers) < MaxReads
              /\ Commit(UI)
              /\ readers' = Append(readers, file)
              /\ last' = [op |-> "selectValid", file |-> file]
  /\ keepSource
  /\ UNCHANGED <<prompt, inflight>>

\* onloadend that leaves the displayed result in place
onloadend_keepResult(ui, result) ==
  [ui EXCEPT !.originalImage = result, !.error = NULL]

\* reader.onloadend
onloadend(ui, result) ==
  [ui EXCEPT !.originalImage = result, !.generatedImage = NULL, !.error = NULL]

\* reader.onerror
onerror(ui) == [ui EXCEPT !.error = Str(ReadFailedMsg)]

\* a read succeeds: the reader fires load, then loadend
readerLoad(i) ==
  /\ i \in 1..Len(readers)
  /\ Commit(onloadend(UI, Str(readAsDataURL(readers[i]))))
  /\ readers' = Remove(readers, i)
  /\ last' = [op |-> "readLoad", file |-> readers[i], before |-> UI]
  /\ keepSource
  /\ UNCHANGED <<prompt, inflight>>

\* a read fails: the reader's result is null and it fires error, then loadend
readerError(i) ==
  /\ i \in 1..Len(readers)
  /\ Commit(onloadend(onerror(UI), NULL))
  /\ readers' = Remove(readers, i)
  /\ last' = [op |-> "readError", file |-> readers[i]]
  /\ keepSource
  /\ UNCHANGED <<prompt, inflight>>

\* a start of generation that leaves the previous result displayed
beforeAwait_keepResult(ui) == [ui EXCEPT !.isLoading = TRUE, !.error = NULL]

\* the state setters of handleGenerate before the try block
beforeAwait(ui) ==
  [ui EXCEPT !.isLoading = TRUE, !.error = NULL, !.generatedImage = NULL]

\* a missing-image branch that also raises the loading flag
noImageBranch_loading(ui) ==
  [ui EXCEPT !.error = Str(UploadFirstMsg), !.isLoading = TRUE]

\* the branch of handleGenerate taken when there is no source image
noImageBranch(ui) == [ui EXCEPT !.error = Str(UploadFirstMsg)]

\* handleGenerate up to the await
handleGenerate ==
  IF ~Truthy(originalImage)
    THEN /\ Commit(noImageBranch(UI))
         /\ last' = [op |-> "generate", sent |-> FALSE]
         /\ keepSource
         /\ UNCHANGED <<prompt, readers, inflight>>
    ELSE LET imageData == dataURLToImageData(Val(originalImage))
         IN IF imageData = NULL
              THEN /\ Commit([UI EXCEPT !.error = Str(InvalidFormatMsg)])
                   /\ last' = [op |-> "generate", sent |-> FALSE]
                   /\ keepSource
                   /\ UNCHANGED <<prompt, readers, inflight>>
              ELSE /\ Len(inflight) < MaxInFlight
                   /\ Commit(beforeAwait(UI))
                   /\ keepSource
                   /\ inflight' = Append(inflight,
                                    [imageData |-> Val(imageData), prompt |-> prompt,
                                     source |-> Val(originalImage)])
                   /\ last' = [op |-> "generate", sent |-> TRUE]
                   /\ UNCHANGED <<prompt, readers>>

\* a button that stays enabled while a generation is in flight
buttonDisabled_ignoreLoading == ~Truthy(originalImage)

\* the Generate button: disabled={isLoading || !originalImage}
buttonDisabled == isLoading \/ ~Truthy(originalImage)

clickGenerate ==
  /\ ~buttonDisabled
  /\ handleGenerate

\* a completion that clears the loading flag on the success path only
afterAwait_noFinally(ui, result) ==
  IF result.ok
    THEN [ui EXCEPT !.generatedImage = Str(PngPrefix \o result.value),
                    !.isLoading = FALSE]
    ELSE [ui EXCEPT !.error = Str(IF result.message # "" THEN result.message
                                                         ELSE UnexpectedMsg)]

\* handleGenerate after the await: try, catch, finally
afterAwait(ui, result) ==
  LET settled == IF result.ok
                   THEN [ui EXCEPT !.generatedImage = Str(PngPrefix \o result.value)]
                   ELSE [ui EXCEPT !.error =
                           Str(IF result.message # "" THEN result.message
                                                      ELSE UnexpectedMsg)]
  IN [settled EXCEPT !.isLoading = FALSE]

\* the service call of request i settles and its handleGenerate resumes
settle(i, outcome) ==
  /\ i \in 1..Len(inflight)
  /\ Commit(afterAwait(UI, generateCartoonImage(outcome)))
  /\ inflight' = Remove(inflight, i)
  /\ last' = [op |-> "settle", index |-> i, outcome |-> outcome,
              result |-> generateCartoonImage(outcome)]
  /\ resultSource' = IF generateCartoonImage(outcome).ok
                       THEN Str(inflight[i].source)
                       ELSE IF generatedImage' = NULL THEN NULL ELSE resultSource
  /\ UNCHANGED <<prompt, readers>>

setPromptStep == \E p \in Prompts : setPromptEvent(p)
fileChangeStep == \E file \in Files \cup {NoFile} : handleFileChange(file)
readerLoadStep == \E i \in 1..MaxReads : readerLoad(i)
readerErrorStep == \E i \in 1..MaxReads : readerError(i)
settleStep == \E i \in 1..MaxInFlight, outcome \in Outcomes : settle(i, outcome)

Next ==
  \/ setPromptStep
  \/ fileChangeStep
  \/ readerLoadStep
  \/ readerErrorStep
  \/ clickGenerate
  \/ settleStep

Spec == Init /\ [][Next]_vars

\* the service call of every request eventually settles
FairSpec == Spec /\ WF_vars(settleStep)

\* handleGenerate called although the button is disabled for want of a
\* source image
callGenerate ==
  /\ ~Truthy(originalImage)
  /\ handleGenerate

NextHandler ==
  \/ Next
  \/ callGenerate

\* the component with its handler also callable directly
HandlerSpec == Init /\ [][NextHandler]_vars

(* ------------------------------ claims --------------------------------- *)

justSettled == last.op = "settle"

\* C1: every generation attempt ends with the loading flag false: right
\* after the request resolves or rejects isLoading is false, and (the
\* service call settling eventually) every state with isLoading = true is
\* followed by one with isLoading = false, whatever file events interleave.
C1_LoadingCleared ==
  /\ [](justSettled => ~isLoading)
  /\ (isLoading ~> ~isLoading)

\* a rejected request has just completed while a file read was pending
C1_Witness ==
  /\ justSettled
  /\ ~last.result.ok
  /\ ~isLoading
  /\ readers # <<>>

\* C2: right after an in-flight generation completes, a resolved request
\* leaves generatedImage set and error = null, a rejected request leaves
\* error set and generatedImage = null, under any interleaving of file
\* selections.
C2_CompletionState ==
  justSettled =>
    IF last.result.ok
      THEN generatedImage # NULL /\ error = NULL
      ELSE error # NULL /\ generatedImage = NULL

\* C3 as stated: at most one of isLoading, error != null and
\* generatedImage != null holds in every reachable state.
C3_AtMostOneMode ==
  /\ ~(isLoading /\ error # NULL)
  /\ ~(isLoading /\ generatedImage # NULL)
  /\ ~(error # NULL /\ generatedImage # NULL)

\* C3 amended: isLoading = true and generatedImage != null never hold
\* together.
C3_LoadingExcludesResult == ~(isLoading /\ generatedImage # NULL)

\* a result and an error are displayed together
C3_Witness == ~isLoading /\ generatedImage # NULL /\ error # NULL

\* C4: in every state where an in-flight generation has just completed a
\* source image is present (Generating goes back to Ready, never to Idle).
C4_BackToReady == justSettled => originalImage # NULL

\* C5: once the callbacks of a failed read of an image file have run, the
\* error message is the "failed to read file" message.
C5_ReadFailureShown == last.op = "readError" => error = Str(ReadFailedMsg)

\* C6: at most one generation request is in flight in any reachable state,
\* and results are applied in the order their requests were issued: the
\* request that completes is the oldest one in flight.
C6_OneInFlight ==
  /\ Len(inflight) <= 1
  /\ isLoading <=> Len(inflight) = 1
  /\ justSettled => last.index = 1

\* a request is in flight, the button is disabled and a source is present
C6_Witness == Len(inflight) = 1 /\ buttonDisabled /\ Truthy(originalImage)

\* C7: selecting a file whose declared type does not start with "image/"
\* sets the error message and changes nothing else: originalImage,
\* generatedImage, prompt and isLoading are as before, no read is started.
C7_InvalidFileFrame ==
  [][last'.op = "selectInvalid" =>
       /\ error' = Str(InvalidFileMsg)
       /\ UNCHANGED <<originalImage, generatedImage, prompt, isLoading,
                      readers, inflight>>]_vars

\* a non-image file has just been selected while a result is displayed
C7_Witness ==
  /\ last.op = "selectInvalid"
  /\ ~startsWith(last.file.type, "image/")
  /\ generatedImage # NULL
  /\ originalImage # NULL
  /\ error = Str(InvalidFileMsg)

\* C8: when the read of a file with an image type succeeds, the completion
\* sets originalImage to the new data URL, generatedImage to null and
\* error to null, whatever result or error was displayed before.
C8_ValidFileLoaded ==
  last.op = "readLoad" =>
    /\ startsWith(last.file.type, "image/")
    /\ originalImage =
         Str("data:" \o last.file.type \o ";base64," \o last.file.payload)
    /\ generatedImage = NULL
    /\ error = NULL

\* a read has just succeeded over a displayed result and a displayed error
C8_Witness ==
  /\ last.op = "readLoad"
  /\ last.before.generatedImage # NULL
  /\ last.before.error # NULL
  /\ last.before.originalImage # originalImage

\* C9: for every source image accepted by file selection, triggering
\* generate while not loading sets isLoading and sends exactly one request;
\* no accepted source image makes generate return without a request.
C9_GenerateSends ==
  last.op = "generate" => last.sent /\ isLoading /\ Len(inflight) = 1

noInlinePart(ps) == \A k \in 1..Len(ps) : ps[k].inlineData = NULL

noImageResponse ==
  /\ justSettled
  /\ last.outcome.kind = "response"
  /\ noInlinePart(last.outcome.parts)

\* C10 as stated: a response without an inline image part makes
\* generateCartoonImage fail with the no-image error itself, not with the
\* generation-failed wrapper, and the UI has error set, generatedImage null.
C10_NoImageDistinct ==
  noImageResponse =>
    /\ last.result = Throw(TRUE, NoImageMsg)
    /\ error # NULL
    /\ generatedImage = NULL

\* C10 amended: such a response makes generateCartoonImage fail with the
\* generation-failed wrapper around the no-image message, and the UI has
\* that message as error and generatedImage null.
C10_NoImageWrapped ==
  noImageResponse =>
    /\ last.result = Throw(TRUE, FailedPrefix \o NoImageMsg)
    /\ error = Str(FailedPrefix \o NoImageMsg)
    /\ generatedImage = NULL

\* a response of two parts, none of them an inline image, has just arrived
C10_Witness ==
  /\ noImageResponse
  /\ Len(last.outcome.parts) = 2
  /\ error # NULL

serviceThrew == justSettled /\ last.outcome.kind # "response"

\* the message the thrown value carries, "" when it carries none
thrownMessage ==
  IF last.outcome.kind \in {"throwError", "throwObject"}
    THEN last.outcome.message
    ELSE ""

GenericMessages == {UnknownMsg, UnexpectedMsg}

\* C11 as stated: a value thrown by the service call that carries a message
\* m leaves the UI in {error: "Failed to generate image: " + m, loading:
\* false, generatedImage: null}; a value that carries no message leaves a
\* generic message as error.
C11_UniformByMessage ==
  serviceThrew =>
    /\ ~isLoading
    /\ generatedImage = NULL
    /\ IF thrownMessage # ""
         THEN error = Str(FailedPrefix \o thrownMessage)
         ELSE error # NULL /\ Val(error) \in GenericMessages

\* C11 amended: a thrown Error with message m (empty or not) leaves the UI
\* in {error: "Failed to generate image: " + m, loading: false,
\* generatedImage: null}; a thrown value that is not an Error leaves the
\* generic unknown-error message as error, whether or not it has a message.
C11_UniformByErrorClass ==
  serviceThrew =>
    /\ ~last.result.ok
    /\ last.result.isError
    /\ ~isLoading
    /\ generatedImage = NULL
    /\ IF last.outcome.kind = "throwError"
         THEN error = Str(FailedPrefix \o last.outcome.message)
         ELSE error = Str(UnknownMsg)

\* the service has just thrown an Error with the message "rate limited"
C11_Witness ==
  /\ serviceThrew
  /\ last.outcome = ThrowError("rate limited")
  /\ error = Str("Failed to generate image: rate limited")
  /\ ~isLoading
  /\ generatedImage = NULL

hasInlinePart(ps) == \E k \in 1..Len(ps) : ps[k].inlineData # NULL

\* the data of the inline part with the least index
firstInlineData(ps) ==
  LET k == CHOOSE n \in 1..Len(ps) :
             /\ ps[n].inlineData # NULL
             /\ \A j \in 1..(n - 1) : ps[j].inlineData = NULL
  IN Val(ps[k].inlineData)

imageResponse ==
  /\ justSettled
  /\ last.outcome.kind = "response"
  /\ hasInlinePart(last.outcome.parts)

\* C12: for a response with at least one inline-image part,
\* generateCartoonImage returns the data of the first such part in list
\* order and the UI ends in {generatedImage: "data:image/png;base64," +
\* that data, error: null, loading: false}.
C12_FirstInlineWins ==
  imageResponse =>
    /\ last.result = Return(firstInlineData(last.outcome.parts))
    /\ generatedImage =
         Str("data:image/png;base64," \o firstInlineData(last.outcome.parts))
    /\ error = NULL
    /\ ~isLoading

\* C13: triggering generate when no source image is present sets the error
\* to the "upload an image first" message and changes nothing else: no
\* request is sent, isLoading keeps its value (false when no generation is
\* running), and originalImage, generatedImage and prompt are unchanged.
C13_NoImageFrame ==
  [][(last'.op = "generate" /\ originalImage = NULL) =>
       /\ error' = Str("Please upload an image first.")
       /\ ~last'.sent
       /\ (~isLoading => ~isLoading')
       /\ UNCHANGED <<originalImage, generatedImage, prompt, isLoading,
                      inflight, readers>>]_vars

\* generate has just been triggered with no source image and nothing running
C13_Witness ==
  /\ last.op = "generate"
  /\ ~last.sent
  /\ originalImage = NULL
  /\ ~isLoading
  /\ inflight = <<>>
  /\ error = Str(UploadFirstMsg)

\* C14: in every reachable state where generatedImage is non-null, it was
\* produced by a request issued for the current originalImage: a source
\* replaced while a generation is in flight never leaves the result of the
\* old source displayed next to the new source.
C14_ResultMatchesSource ==
  (generatedImage # NULL /\ originalImage # NULL) => originalImage = resultSource

====
